---- MODULE Spec2Model ----
(***************************************************************************)
(* The staging / dispatch / eviction lifecycle of src/app.py:              *)
(*   chat             POST /api/chat         (lines 3037-3115)             *)
(*   cleanup_request_data, the threading.Timer armed by chat (3093-3102)   *)
(*   chat_stream      GET /api/chat/stream   (lines 3117-3396)             *)
(*   generate_response, the generator chat_stream returns (3162-3385)      *)
(*                                                                         *)
(* Threads.  chat and chat_stream are `async def` handlers without an      *)
(* await: each runs on the event loop and no other handler runs meanwhile. *)
(* cleanup_request_data runs on its own Timer thread, generate_response is *)
(* a plain generator and is driven from worker threads.  The statements    *)
(* that touch the shared dict CHAT_REQUESTS are therefore separate steps   *)
(* of the model wherever the code has a presence test followed by a use.   *)
(***************************************************************************)
EXTENDS Integers, Sequences, FiniteSets, TLC

\* ---------------------------------------------------------------- constants
MAX_HISTORY == 20

EVICT_DELAY == 300

\* ------------------------------------------------------------------- bounds
\* calls of the two endpoints, chat and chat_stream, together
MaxCalls == 2

\* deltas the upstream stream delivers to one call
MaxChunks == 2
MaxTurns == 6

\* request ids: what a client may send and what str(int(time.time())) may give
TimeKeys == <<"t1", "t2">>

Keys == {TimeKeys[i] : i \in 1..Len(TimeKeys)}

\* request_id None or "" : both are falsy at lines 3046 and 3120
NoId == ""

\* ------------------------------------------------------------ history turns
\* A turn of a history is a str or an image dict (lines 3144-3159).
Text(t) == [type |-> "text", text |-> t, preview |-> ""]

Image(t, p) == [type |-> "image", text |-> t, preview |-> p]

\* Alternating question / answer turns, n of them.
Hist(n) == [i \in 1..n |-> IF i % 2 = 1 THEN Text(<<"q">>) ELSE Text(<<"r">>)]

\* str.strip() on a text, a sequence of tokens of which " " is white space
RECURSIVE StripLeft(_)
StripLeft(t) == IF t # <<>> /\ Head(t) = " " THEN StripLeft(Tail(t)) ELSE t

RECURSIVE StripRight(_)
StripRight(t) ==
    IF t # <<>> /\ t[Len(t)] = " " THEN StripRight(SubSeq(t, 1, Len(t) - 1)) ELSE t

Strip(t) == StripRight(StripLeft(t))

\* ---------------------------------------------------------------- variables
VARIABLES
    CHAT_REQUESTS,  \* key -> id of the chat_data dict stored under it, 0: no entry
    entries,        \* chat_data dicts ever stored, by id (staged: the history
                    \* as chat received it, which the properties compare with)
    lists,          \* the history list objects, by id
    apis,           \* the api_state dict objects, by id
    timers,         \* the cleanup timers ever armed, by id (one per stored entry)
    streams,        \* the chat_stream calls ever made, by id
    loop,           \* the chat_stream call the event loop is inside of, 0: none
    nChat,          \* calls of chat so far
    lastChat,       \* the last call of chat: its input and its response
    genUsed,        \* time-derived request ids generated so far
    secondOf,       \* while the clock is in the second of the last generated id:
                    \* the number of timers armed before that second, else -1
    lastEdit        \* the history a client holds and its last call of
                    \* undo_last or retry_last: the input and the response

vars == <<CHAT_REQUESTS, entries, lists, apis, timers, streams, loop,
          nChat, lastChat, genUsed, secondOf, lastEdit>>

NoChat == [hlen |-> 0, usable |-> FALSE,
           api_state |-> [empty |-> TRUE, has_is_valid |-> FALSE, is_valid |-> FALSE],
           start |-> "ok", raised |-> "none",
           status |-> "none", message |-> <<>>, request_id |-> NoId]

\* no call of undo_last or retry_last yet; the client holds the history
NoEdit(history) ==
    [op |-> "none", request |-> <<>>,
     response |-> [status |-> "none", message |-> "", history |-> <<>>],
     client |-> history]

TableInit ==
    /\ CHAT_REQUESTS = [k \in Keys |-> 0]
    /\ entries = <<>>
    /\ lists = <<>>
    /\ apis = <<>>
    /\ timers = <<>>
    /\ streams = <<>>
    /\ loop = 0
    /\ nChat = 0
    /\ lastChat = NoChat
    /\ genUsed = 0
    /\ secondOf = -1

Init == TableInit /\ lastEdit = NoEdit(<<>>)

\* ---------------------------------------------------------------- chat
\* api_state as sent by the client: an empty dict, or one with or without the
\* is_valid key, and with or without a conversation_memory.
NoMemory == [present |-> FALSE, topics |-> <<>>, user_questions |-> <<>>]

ApiState(empty, has, valid) ==
    [empty |-> empty, has_is_valid |-> has, is_valid |-> valid,
     conversation_memory |-> NoMemory]

\* a valid configuration that carries a conversation_memory
ApiStateWithMemory(topics, user_questions) ==
    [ApiState(FALSE, TRUE, TRUE) EXCEPT
        !.conversation_memory = [present |-> TRUE, topics |-> topics,
                                 user_questions |-> user_questions]]

ApiStates == {ApiState(TRUE, FALSE, FALSE), ApiState(FALSE, FALSE, FALSE),
              ApiState(FALSE, TRUE, FALSE), ApiState(FALSE, TRUE, TRUE)}

ApiStateInvalidDefaultValid(api_state) ==
    api_state.empty \/ (api_state.has_is_valid /\ ~api_state.is_valid)

\* line 3051: not api_state or not api_state.get('is_valid', False)
ApiStateInvalid(api_state) ==
    api_state.empty \/ ~(api_state.has_is_valid /\ api_state.is_valid)

HistoryLimitReachedNever(history) == FALSE

HistoryLimitReachedOffByOne(history) == Len(history) > MAX_HISTORY * 2

\* line 3058: len(history) >= MAX_HISTORY * 2
HistoryLimitReached(history) == Len(history) >= MAX_HISTORY * 2

\* line 3046: request_data.request_id or str(int(time.time()))
\* The generated id is the current second: the same as the last generated one
\* while the clock has not left that second, a new one afterwards.
SameSecond == secondOf >= 0

RequestId(rid) ==
    IF rid # NoId THEN rid
    ELSE IF SameSecond THEN TimeKeys[genUsed]
    ELSE TimeKeys[genUsed + 1]

\* str(e) of the exceptions of the model: the message the exception was made
\* with (line 114; a KeyError shows its key; threading's and the upstream
\* library's own texts)
str(e) ==
    CASE e = "EnvironmentError" -> "API key not found. Please set OPENAI_API_KEY in .env file"
      [] e = "KeyError" -> "'CHAT_REQ_request_id'"
      [] e = "RuntimeError" -> "can't start new thread"
      [] e = "AttributeError" -> "object has no attribute 'startswith'"
      [] OTHER -> "text of the upstream error"

\* the value chat returns (a dict without request_id: NoId) and, of its input,
\* what the properties speak of; raised: the exception that left chat, if any
ChatResponse(rid, history, api_state, start, status, message, request_id) ==
    [hlen |-> Len(history),
     usable |-> ~ApiStateInvalid(api_state),
     api_state |-> api_state,
     start |-> start, raised |-> "none",
     status |-> status, message |-> message, request_id |-> request_id]

chatExceptReraise(rid, history, api_state, e) ==
    [ChatResponse(rid, history, api_state, e, "none", <<>>, NoId) EXCEPT !.raised = e]

\* lines 3110-3115: except Exception as e  ->  the 'Server error' response
chatExcept(rid, history, api_state, e) ==
    ChatResponse(rid, history, api_state, e, "error", <<"Server error: ", str(e)>>, NoId)

\* lines 3080-3102: store chat_data under the key, arm the 300 s timer
\* (Thread.start raises RuntimeError when no thread can be started: the Timer
\* object of line 3100 then never runs)
StoreAndArm(key, history, api_state, message, start) ==
    LET id == Len(entries) + 1 IN
    /\ entries' = Append(entries, [key |-> key, history |-> id, api_state |-> id,
                                   message |-> message, staged |-> history])
    /\ lists' = Append(lists, history)
    /\ apis' = Append(apis, api_state)
    /\ CHAT_REQUESTS' = [CHAT_REQUESTS EXCEPT ![key] = id]
    /\ timers' = Append(timers, [key |-> key, expired |-> FALSE,
                                 pc |-> IF start = "ok" THEN "armed" ELSE "unstarted",
                                 removed |-> 0, removedAge |-> 0, consumed |-> FALSE])

chat(rid, history, api_state, message, start) ==
    /\ loop = 0
    /\ rid = NoId /\ ~SameSecond => genUsed < Len(TimeKeys)
    /\ nChat' = nChat + 1
    /\ genUsed' = IF rid = NoId /\ ~SameSecond THEN genUsed + 1 ELSE genUsed
    /\ secondOf' = IF rid = NoId /\ ~SameSecond THEN Len(timers) ELSE secondOf
    /\ UNCHANGED <<streams, loop, lastEdit>>
    /\ IF ApiStateInvalid(api_state)
       THEN /\ lastChat' = ChatResponse(rid, history, api_state, start,
                                        "error", <<"restart">>, NoId)
            /\ UNCHANGED <<CHAT_REQUESTS, entries, lists, apis, timers>>
       ELSE IF HistoryLimitReached(history)
       THEN /\ lastChat' = ChatResponse(rid, history, api_state, start,
                                        "error", <<"limit">>, NoId)
            /\ UNCHANGED <<CHAT_REQUESTS, entries, lists, apis, timers>>
       ELSE /\ StoreAndArm(RequestId(rid), history, api_state, message, start)
            /\ lastChat' =
                 IF start = "ok"
                 THEN ChatResponse(rid, history, api_state, start,
                                   "success", <<"received">>, RequestId(rid))
                 ELSE chatExcept(rid, history, api_state, start)

\* ------------------------------------------------- cleanup_request_data
\* line 3095: if key in CHAT_REQUESTS   (after the 300 s have passed)
TimerCheck(t) ==
    /\ timers[t].pc = "armed"
    /\ timers[t].expired
    /\ timers' = [timers EXCEPT ![t].pc =
                      IF CHAT_REQUESTS[timers[t].key] # 0 THEN "del" ELSE "done",
                    ![t].consumed = \E s \in DOMAIN streams : streams[s].data = t]
    /\ UNCHANGED <<CHAT_REQUESTS, entries, lists, apis, streams, loop,
                   nChat, lastChat, genUsed, secondOf, lastEdit>>

\* seconds since chat stored entry id (line 3087), as far as the model tells
\* them apart: EVICT_DELAY or more, or less.  The timer of the entry was armed
\* in the same call.
Age(id) == IF timers[id].expired THEN EVICT_DELAY ELSE 0

\* what the timer's del statement leaves of the table
TimerDelTableNoDelete(key) == CHAT_REQUESTS

TimerDelTableClear(key) == [k \in Keys |-> 0]

TimerDelTable(key) == [CHAT_REQUESTS EXCEPT ![key] = 0]

\* line 3097: del CHAT_REQUESTS[key]   (KeyError when the key has gone meanwhile)
TimerDel(t) ==
    /\ timers[t].pc = "del"
    /\ LET key == timers[t].key
           id == CHAT_REQUESTS[key] IN
       IF id = 0
       THEN /\ timers' = [timers EXCEPT ![t].pc = "raised"]
            /\ UNCHANGED CHAT_REQUESTS
       ELSE /\ CHAT_REQUESTS' = TimerDelTable(key)
            /\ timers' = [timers EXCEPT ![t].pc = "done", ![t].removed = id,
                                        ![t].removedAge = Age(id)]
    /\ UNCHANGED <<entries, lists, apis, streams, loop,
                   nChat, lastChat, genUsed, secondOf, lastEdit>>

\* ------------------------------------------------------------------ time
\* line 3100: the 300 s of timer t have passed.  All timers have the same delay,
\* so they run out in the order they were armed; a timer armed in the second of
\* the last generated request id takes the clock out of that second.
Expire(t) ==
    /\ ~timers[t].expired
    /\ \A u \in 1..(t - 1) : timers[u].expired
    /\ timers' = [timers EXCEPT ![t].expired = TRUE]
    /\ secondOf' = IF t > secondOf THEN -1 ELSE secondOf
    /\ UNCHANGED <<CHAT_REQUESTS, entries, lists, apis, streams, loop,
                   nChat, lastChat, genUsed, lastEdit>>

\* The clock leaves the second of the last generated request id.
SecondPasses ==
    /\ SameSecond
    /\ secondOf' = -1
    /\ UNCHANGED <<CHAT_REQUESTS, entries, lists, apis, timers, streams, loop,
                   nChat, lastChat, genUsed, lastEdit>>

\* ------------------------------------------------------------ chat_stream
KeyPresentNoTableTest(rid) == rid # NoId

\* line 3120: request_id and key in CHAT_REQUESTS
KeyPresent(rid) == rid # NoId /\ CHAT_REQUESTS[rid] # 0

\* lines 3120-3124: not request_id or key not in CHAT_REQUESTS  ->  the error
\* response.  Of a call the model keeps: began, the number of entries stored
\* before it read its own; calls, the completions.create calls it made (line
\* 3312); upstream, how the upstream stream of the call went: "ended", or the
\* error it raised; sent, the messages argument of that call.
DispatchCheck(rid) ==
    /\ loop = 0
    /\ LET found == KeyPresent(rid)
           s == Len(streams) + 1 IN
       /\ streams' = Append(streams,
              [rid |-> rid, pc |-> IF found THEN "read" ELSE "rejected",
               data |-> 0, history |-> 0, api |-> 0, full |-> <<>>, deltas |-> 0,
               events |-> <<>>, err |-> "none", raised |-> "none",
               began |-> 0, calls |-> 0, upstream |-> "none", sent |-> <<>>,
               updated_memory |-> NoMemory])
       /\ loop' = IF found THEN s ELSE 0
    /\ UNCHANGED <<CHAT_REQUESTS, entries, lists, apis, timers,
                   nChat, lastChat, genUsed, secondOf, lastEdit>>

\* lines 3143-3159: the user turn chat_stream appends to the history, if any
UserTurn(history, message) ==
    LET user_text == Strip(message.text) IN
    IF Len(history) > 0 /\ history[Len(history)].type = "image" THEN <<>>
    ELSE IF Len(history) > 0 /\ history[Len(history)].type = "text"
            /\ history[Len(history)].text = user_text THEN <<>>
    ELSE IF message.has_image THEN <<Image(user_text, message.preview)>>
    ELSE <<Text(user_text)>>

\* lines 3127-3159 and 3388: read the entry (KeyError when a timer or a stream's
\* cleanup has removed it since the test), add the user turn to its history list
\* in place, return the streaming response.
DispatchRead(s) ==
    /\ loop = s
    /\ streams[s].pc = "read"
    /\ loop' = 0
    /\ LET id == CHAT_REQUESTS[streams[s].rid] IN
       IF id = 0
       THEN /\ streams' = [streams EXCEPT ![s].pc = "end", ![s].raised = "KeyError"]
            /\ UNCHANGED lists
       ELSE LET h == entries[id].history IN
            /\ streams' = [streams EXCEPT ![s].pc = "gen", ![s].data = id,
                                          ![s].began = Len(entries),
                                          ![s].history = h,
                                          ![s].api = entries[id].api_state]
            /\ lists' = [lists EXCEPT ![h] = lists[h] \o UserTurn(lists[h], entries[id].message)]
    /\ UNCHANGED <<CHAT_REQUESTS, entries, apis, timers,
                   nChat, lastChat, genUsed, secondOf, lastEdit>>

\* --------------------------------------------------- generate_response
Event(type, content) == [type |-> type, content |-> content]

EmitFirst(s, type, content) == <<Event(type, content)>> \o streams[s].events

\* a yield: the event follows those the stream has emitted so far
Emit(s, type, content) == Append(streams[s].events, Event(type, content))

\* what the upstream call raises in the lifecycle model
UpstreamErrors == {"RateLimitError"}

\* lines 2619-2631
handle_api_error(error) ==
    CASE error = "RateLimitError" -> <<"API rate limit exceeded. Please wait and try again">>
      [] error = "APIConnectionError" -> <<"Connection error. Please check your internet connection">>
      [] error = "APIStatusError" -> <<"API error: ", "status_code", " - ", "message">>
      [] OTHER -> <<"API error: ", str(error)>>

\* lines 2612-2617
format_error_message(message) == <<"[HH:MM:SS] ">> \o message

\* line 3375
UnexpectedError(e) == format_error_message(<<"Unexpected error: ", str(e)>>)

\* a preview that is not a str: preview_base64.startswith raises AttributeError
NotStr == "<not a str>"

\* lines 3236-3239: the part of a data URL after the comma, or the preview
Base64Part(preview) == IF preview = "data:image,b64" THEN "b64" ELSE preview

Msg(role, kind, text, url) == [role |-> role, kind |-> kind, text |-> text, url |-> url]

\* lines 3232-3263 and 3270-3299: a turn as a user message; the except of the
\* history loop gives the '[Error processing image]' message
UserMsg(user_msg) ==
    IF user_msg.type = "image"
    THEN IF user_msg.preview = NotStr
         THEN Msg("user", "text", <<"[Error processing image] ">> \o user_msg.text, "")
         ELSE IF user_msg.preview # ""
         THEN Msg("user", "image_url", user_msg.text, Base64Part(user_msg.preview))
         ELSE Msg("user", "text", <<"[Image not available] ">> \o user_msg.text, "")
    ELSE Msg("user", "text", user_msg.text, "")

\* line 3265: if bot_msg  (an empty str is falsy, a dict with keys is truthy)
Truthy(turn) == turn.type = "image" \/ turn.text # <<>>

\* line 3266: str(bot_msg), of a dict its repr
AssistantMsg(bot_msg) ==
    IF bot_msg.type = "image"
    THEN Msg("assistant", "repr", bot_msg.text, bot_msg.preview)
    ELSE Msg("assistant", "text", bot_msg.text, "")

\* lines 3228-3266: for i in range(0, len(history) - 1, 2), i counted from 1
RECURSIVE HistoryMessages(_, _)
HistoryMessages(history, i) ==
    IF i > Len(history) - 1 THEN <<>>
    ELSE <<UserMsg(history[i])>>
         \o (IF Truthy(history[i + 1]) THEN <<AssistantMsg(history[i + 1])>> ELSE <<>>)
         \o HistoryMessages(history, i + 2)

\* lines 3294-3297: the current turn is an image whose preview cannot be read
CurrentRaises(history) ==
    /\ history[Len(history)].type = "image"
    /\ history[Len(history)].preview = NotStr

\* lines 3224-3299: the system prompt, the history in pairs, history[-1]
Messages(history) ==
    <<Msg("system", "text", <<"system_prompt">>, "")>>
    \o HistoryMessages(history, 1)
    \o <<UserMsg(history[Len(history)])>>

\* lines 3163-3320: the first thinking event, the client (init_openai_client
\* raises EnvironmentError when no API key is configured), the message list
\* (an unreadable current image: the error event of line 3296 and return), the
\* second thinking event, client.chat.completions.create(..., stream=True)
GenPrepare(s) ==
    /\ streams[s].pc = "gen"
    /\ \/ streams' = [streams EXCEPT ![s].pc = "x_check", ![s].err = "EnvironmentError",
                          ![s].events = Emit(s, "thinking", <<"analyzing">>)]
       \/ /\ CurrentRaises(lists[streams[s].history])
          /\ streams' = [streams EXCEPT ![s].pc = "f_check",
                          ![s].events = streams[s].events
                              \o <<Event("thinking", <<"analyzing">>),
                                   Event("error", <<"Error processing image: ",
                                                    str("AttributeError")>>)>>]
       \/ /\ ~CurrentRaises(lists[streams[s].history])
          /\ \E e \in UpstreamErrors :
            streams' = [streams EXCEPT ![s].pc = "e_handle", ![s].err = e,
                          ![s].calls = @ + 1, ![s].upstream = e,
                          ![s].sent = Messages(lists[streams[s].history]),
                          ![s].events = streams[s].events
                              \o <<Event("thinking", <<"analyzing">>),
                                   Event("thinking", <<"processing">>)>>]
       \/ /\ ~CurrentRaises(lists[streams[s].history])
          /\ streams' = [streams EXCEPT ![s].pc = "stream", ![s].full = <<>>,
                          ![s].calls = @ + 1,
                          ![s].sent = Messages(lists[streams[s].history]),
                          ![s].events = streams[s].events
                              \o <<Event("thinking", <<"analyzing">>),
                                   Event("thinking", <<"processing">>)>>]
    /\ UNCHANGED <<CHAT_REQUESTS, entries, lists, apis, timers, loop,
                   nChat, lastChat, genUsed, secondOf, lastEdit>>

\* the upstream response is a text delivered one fragment per delta
Fragment(i) == IF i % 2 = 1 THEN <<"a">> ELSE <<"b">>

AccumulateOverwrite(full_response, content) == content

\* line 3324: full_response += content
Accumulate(full_response, content) == full_response \o content

\* lines 3321-3325: one delta of the upstream stream: a text fragment (a chunk
\* event), a delta without content (no event), or an error raised by the stream
GenChunk(s) ==
    /\ streams[s].pc = "stream"
    /\ streams[s].deltas < MaxChunks
    /\ \/ LET content == Fragment(streams[s].deltas + 1) IN
            streams' = [streams EXCEPT ![s].deltas = @ + 1,
                          ![s].full = Accumulate(streams[s].full, content),
                          ![s].events = Emit(s, "chunk", content)]
       \/ UNCHANGED streams
       \/ \E e \in UpstreamErrors :
            streams' = [streams EXCEPT ![s].pc = "e_handle", ![s].err = e,
                                       ![s].upstream = e]
    /\ UNCHANGED <<CHAT_REQUESTS, entries, lists, apis, timers, loop,
                   nChat, lastChat, genUsed, secondOf, lastEdit>>

\* lines 3194-3200: the conversation_memory of the configuration, or the
\* default one
MemoryOf(api_state) ==
    IF api_state.conversation_memory.present THEN api_state.conversation_memory
    ELSE [present |-> TRUE, topics |-> <<>>, user_questions |-> <<>>]

\* str.lower, on the words of a text
LowerWord(w) ==
    CASE w = "Solve" -> "solve"
      [] w = "Angle" -> "angle"
      [] OTHER -> w

Lower(text) == [i \in DOMAIN text |-> LowerWord(text[i])]

\* line 3353: last_user_message[:100]
First100(text) == SubSeq(text, 1, IF Len(text) < 100 THEN Len(text) ELSE 100)

\* lines 3335-3343: the topics and their (English) keywords, in dict order
math_topics ==
    << [topic |-> "Algebra", keywords |-> {"algebra", "equation", "variable", "solve"}],
       [topic |-> "Geometry",
        keywords |-> {"geometry", "shape", "angle", "line", "area", "volume"}],
       [topic |-> "Calculus", keywords |-> {"derivative", "integral", "limit"}],
       [topic |-> "Statistics",
        keywords |-> {"statistics", "mean", "median", "mode", "deviation"}],
       [topic |-> "Probability", keywords |-> {"probability", "chance", "random"}],
       [topic |-> "Trigonometry",
        keywords |-> {"sin", "cos", "tan", "angle", "trigonometry"}],
       [topic |-> "Number Systems",
        keywords |-> {"integer", "rational", "real", "number"}] >>

\* lines 3345-3348: a topic whose keyword occurs in the message is appended
\* unless the list holds it already
RECURSIVE AddTopics(_, _, _)
AddTopics(topics, text, i) ==
    IF i > Len(math_topics) THEN topics
    ELSE LET t == math_topics[i]
             hit == \E j \in DOMAIN text : text[j] \in t.keywords
             held == \E j \in DOMAIN topics : topics[j] = t.topic
         IN AddTopics(IF hit /\ ~held THEN Append(topics, t.topic) ELSE topics,
                      text, i + 1)

\* lines 3350-3352: the question is appended while the list holds fewer than 5
AddQuestion(user_questions, text) ==
    IF Len(user_questions) < 5 THEN Append(user_questions, First100(text))
    ELSE user_questions

\* lines 3331-3352: history[-2] is the turn before the response; only a str
\* updates the memory
UpdateMemory(memory, last_user_message) ==
    IF last_user_message.type = "text"
    THEN LET text == Lower(last_user_message.text) IN
         [memory EXCEPT !.topics = AddTopics(@, text, 1),
                        !.user_questions = AddQuestion(@, text)]
    ELSE memory

\* lines 3327-3355: the upstream stream has ended: the response becomes a turn
\* of the history list and the conversation_memory is updated and set in the
\* configuration
GenEnd(s) ==
    /\ streams[s].pc = "stream"
    /\ streams' = [streams EXCEPT ![s].pc = "wb_history", ![s].upstream = "ended"]
    /\ lists' = [lists EXCEPT ![streams[s].history] = Append(@, Text(streams[s].full))]
    /\ LET history == lists[streams[s].history] IN
       apis' = [apis EXCEPT ![streams[s].api].conversation_memory =
                    UpdateMemory(MemoryOf(apis[streams[s].api]), history[Len(history)])]
    /\ UNCHANGED <<CHAT_REQUESTS, entries, timers, loop,
                   nChat, lastChat, genUsed, secondOf, lastEdit>>

WriteBackTableCreate(key, data) == [CHAT_REQUESTS EXCEPT ![key] = data]

\* the table after CHAT_REQUESTS[key]['history'] = history: the statement
\* subscripts the table and assigns into the dict it finds, the table itself
\* is as before
WriteBackTable(key, data) == CHAT_REQUESTS

\* line 3358: CHAT_REQUESTS[key]['history'] = history
GenWriteHistory(s) ==
    /\ streams[s].pc = "wb_history"
    /\ CHAT_REQUESTS' = WriteBackTable(streams[s].rid, streams[s].data)
    /\ LET id == CHAT_REQUESTS[streams[s].rid] IN
       IF id = 0
       THEN /\ streams' = [streams EXCEPT ![s].pc = "e_handle", ![s].err = "KeyError"]
            /\ UNCHANGED entries
       ELSE /\ streams' = [streams EXCEPT ![s].pc = "wb_api"]
            /\ entries' = [entries EXCEPT ![id].history = streams[s].history]
    /\ UNCHANGED <<lists, apis, timers, loop,
                   nChat, lastChat, genUsed, secondOf, lastEdit>>

\* lines 3359-3362: CHAT_REQUESTS[key]['api_state'] = api_state, the done event
GenWriteApi(s) ==
    /\ streams[s].pc = "wb_api"
    /\ LET id == CHAT_REQUESTS[streams[s].rid] IN
       IF id = 0
       THEN /\ streams' = [streams EXCEPT ![s].pc = "e_handle", ![s].err = "KeyError"]
            /\ UNCHANGED entries
       ELSE /\ streams' = [streams EXCEPT ![s].pc = "f_check",
                             ![s].events = Emit(s, "done", streams[s].full),
                             ![s].updated_memory =
                                 apis[streams[s].api].conversation_memory]
            /\ entries' = [entries EXCEPT ![id].api_state = streams[s].api]
    /\ UNCHANGED <<CHAT_REQUESTS, lists, apis, timers, loop,
                   nChat, lastChat, genUsed, secondOf, lastEdit>>

AfterApiErrorRetry == "gen"

\* where generate_response goes on after the error event of line 3371: nothing
\* follows the handler but the finally of line 3382
AfterApiError == "f_check"

\* lines 3364-3371: except Exception as api_error
ErrHandle(s) ==
    /\ streams[s].pc = "e_handle"
    /\ LET error_msg == handle_api_error(streams[s].err)
           id == CHAT_REQUESTS[streams[s].rid] IN
       /\ lists' = [lists EXCEPT ![streams[s].history] = Append(@, Text(error_msg))]
       /\ IF id = 0
          THEN /\ streams' = [streams EXCEPT ![s].pc = "x_check", ![s].err = "KeyError"]
               /\ UNCHANGED entries
          ELSE /\ streams' = [streams EXCEPT ![s].pc = AfterApiError, ![s].err = "none",
                                ![s].events = Emit(s, "error", error_msg)]
               /\ entries' = [entries EXCEPT ![id].history = streams[s].history]
    /\ UNCHANGED <<CHAT_REQUESTS, apis, timers, loop,
                   nChat, lastChat, genUsed, secondOf, lastEdit>>

\* lines 3373-3377: except Exception as e, up to the presence test; with the
\* key absent the error event of line 3380 follows at once
OuterCheck(s) ==
    /\ streams[s].pc = "x_check"
    /\ streams' =
         IF CHAT_REQUESTS[streams[s].rid] # 0
         THEN [streams EXCEPT ![s].pc = "x_append"]
         ELSE [streams EXCEPT ![s].pc = "f_check", ![s].err = "none",
                 ![s].events = Emit(s, "error", UnexpectedError(streams[s].err))]
    /\ UNCHANGED <<CHAT_REQUESTS, entries, lists, apis, timers, loop,
                   nChat, lastChat, genUsed, secondOf, lastEdit>>

\* lines 3378-3380: CHAT_REQUESTS[key]['history'].append(error_msg), the error
\* event; a KeyError here leaves the handler and the generator after the finally
OuterAppend(s) ==
    /\ streams[s].pc = "x_append"
    /\ LET id == CHAT_REQUESTS[streams[s].rid]
           error_msg == UnexpectedError(streams[s].err) IN
       IF id = 0
       THEN /\ streams' = [streams EXCEPT ![s].pc = "f_check", ![s].err = "none",
                                          ![s].raised = "KeyError"]
            /\ UNCHANGED lists
       ELSE /\ streams' = [streams EXCEPT ![s].pc = "f_check", ![s].err = "none",
                             ![s].events = Emit(s, "error", error_msg)]
            /\ lists' = [lists EXCEPT ![entries[id].history] = Append(@, Text(error_msg))]
    /\ UNCHANGED <<CHAT_REQUESTS, entries, apis, timers, loop,
                   nChat, lastChat, genUsed, secondOf, lastEdit>>

\* line 3384: if key in CHAT_REQUESTS
FinallyCheck(s) ==
    /\ streams[s].pc = "f_check"
    /\ streams' = [streams EXCEPT ![s].pc =
                      IF CHAT_REQUESTS[streams[s].rid] # 0 THEN "f_del" ELSE "end"]
    /\ UNCHANGED <<CHAT_REQUESTS, entries, lists, apis, timers, loop,
                   nChat, lastChat, genUsed, secondOf, lastEdit>>

\* what the del statement of the finally leaves of the table
FinallyDelTableKeep(key) == CHAT_REQUESTS

FinallyDelTable(key) == [CHAT_REQUESTS EXCEPT ![key] = 0]

\* line 3385: del CHAT_REQUESTS[key]   (KeyError when the key has gone meanwhile)
FinallyDel(s) ==
    /\ streams[s].pc = "f_del"
    /\ IF CHAT_REQUESTS[streams[s].rid] = 0
       THEN /\ streams' = [streams EXCEPT ![s].pc = "end", ![s].raised = "KeyError in finally"]
            /\ UNCHANGED CHAT_REQUESTS
       ELSE /\ streams' = [streams EXCEPT ![s].pc = "end"]
            /\ CHAT_REQUESTS' = FinallyDelTable(streams[s].rid)
    /\ UNCHANGED <<entries, lists, apis, timers, loop,
                   nChat, lastChat, genUsed, secondOf, lastEdit>>

\* ------------------------------------------------------- specifications
Message(text, has_image, preview) == [text |-> text, has_image |-> has_image, preview |-> preview]

\* What the clients of the lifecycle model send to chat: submissions that chat
\* accepts, each with a request id.  (A generated id is the current second, a
\* string a client may send as well, and a refused submission changes nothing
\* but the response: StageSpec below has both.)
SpecHistories == {Hist(0)}

SpecApiStates == {ApiState(FALSE, TRUE, TRUE)}

SpecMessages == {Message(<<"m", " ">>, FALSE, "")}

\* the clients have made fewer than n calls
CallsBelow(n) == nChat + Len(streams) < n

Stage ==
    /\ CallsBelow(MaxCalls)
    /\ \E rid \in Keys, history \in SpecHistories,
          api_state \in SpecApiStates, message \in SpecMessages :
           chat(rid, history, api_state, message, "ok")

Dispatch ==
    /\ CallsBelow(MaxCalls)
    /\ \E rid \in Keys \cup {NoId} : DispatchCheck(rid)

Handler == \E s \in DOMAIN streams : DispatchRead(s)

Generator ==
    \E s \in DOMAIN streams :
        \/ GenPrepare(s)
        \/ GenChunk(s)
        \/ GenEnd(s)
        \/ GenWriteHistory(s)
        \/ GenWriteApi(s)
        \/ ErrHandle(s)
        \/ OuterCheck(s)
        \/ OuterAppend(s)
        \/ FinallyCheck(s)
        \/ FinallyDel(s)

Timer == \E t \in DOMAIN timers : TimerCheck(t) \/ TimerDel(t)

Clock == \E t \in DOMAIN timers : Expire(t)

Next == Stage \/ Dispatch \/ Handler \/ Generator \/ Timer \/ Clock

Spec == Init /\ [][Next]_vars

\* the same clients with one call more
StageMore ==
    /\ CallsBelow(MaxCalls + 1)
    /\ \E rid \in Keys, history \in SpecHistories,
          api_state \in SpecApiStates, message \in SpecMessages :
           chat(rid, history, api_state, message, "ok")

DispatchMore ==
    /\ CallsBelow(MaxCalls + 1)
    /\ \E rid \in Keys \cup {NoId} : DispatchCheck(rid)

MoreNext == StageMore \/ DispatchMore \/ Handler \/ Generator \/ Timer \/ Clock

MoreSpec == Init /\ [][MoreNext]_vars

\* chat alone, with histories around the limit and every shape of api_state
StageHistories == {Hist(0), Hist(1), Hist(MAX_HISTORY), Hist(MAX_HISTORY * 2 - 1),
                   Hist(MAX_HISTORY * 2), Hist(MAX_HISTORY * 2 + 1)}

\* cleanup_timer.start() of line 3102: the thread starts, or RuntimeError
StartOutcomes == {"ok", "RuntimeError"}

StageAny ==
    /\ CallsBelow(MaxCalls)
    /\ \E rid \in Keys \cup {NoId}, history \in StageHistories,
          api_state \in ApiStates, message \in SpecMessages,
          start \in StartOutcomes :
           chat(rid, history, api_state, message, start)

StageNext == StageAny \/ Clock \/ SecondPasses

StageSpec == Init /\ [][StageNext]_vars

\* The Timer threads are scheduled: a timer whose delay has passed runs, and
\* the delay of a started timer does pass.
FairSpec ==
    /\ Spec
    /\ WF_vars(Clock)
    /\ WF_vars(Timer)

\* One client, one key, with histories of even and of odd length, with and
\* without image turns, and messages with and without an image: what
\* chat_stream and generate_response make of them.
BuildHistories ==
    {Hist(0), Hist(1), Hist(2), Hist(3),
     <<Image(<<"q">>, "b64")>>,
     <<Text(<<"q">>), Text(<<>>), Image(<<"q">>, "")>>}

BuildMessages ==
    {Message(<<"m", " ">>, FALSE, ""), Message(<<"q">>, FALSE, ""),
     Message(<<"m">>, TRUE, "data:image,b64"), Message(<<"m">>, TRUE, NotStr)}

BuildStage ==
    /\ CallsBelow(MaxCalls)
    /\ \E history \in BuildHistories, message \in BuildMessages :
           chat(TimeKeys[1], history, ApiState(FALSE, TRUE, TRUE), message, "ok")

BuildDispatch ==
    /\ CallsBelow(MaxCalls)
    /\ DispatchCheck(TimeKeys[1])

BuildNext == BuildStage \/ BuildDispatch \/ Handler \/ Generator

BuildSpec == Init /\ [][BuildNext]_vars

\* One client, one key, configurations with and without a conversation_memory
\* (one that an earlier 'done' event could have carried, and one that it could
\* not), and messages with and without the keywords of a topic.
Questions(n) == [i \in 1..n |-> <<"q">>]

MemoryApiStates ==
    {ApiState(FALSE, TRUE, TRUE),
     ApiStateWithMemory(<<"Algebra">>, Questions(4)),
     ApiStateWithMemory(<<"Geometry">>, Questions(5)),
     ApiStateWithMemory(<<"Algebra", "Algebra">>, Questions(6))}

MemoryMessages ==
    {Message(<<"m">>, FALSE, ""), Message(<<"Solve", "x">>, FALSE, ""),
     Message(<<"Angle">>, FALSE, ""), Message(<<"m">>, TRUE, "data:image,b64")}

MemoryStage ==
    /\ CallsBelow(MaxCalls)
    /\ \E history \in {Hist(0), Hist(1)}, api_state \in MemoryApiStates,
          message \in MemoryMessages :
           chat(TimeKeys[1], history, api_state, message, "ok")

MemoryNext == MemoryStage \/ BuildDispatch \/ Handler \/ Generator

MemorySpec == Init /\ [][MemoryNext]_vars

\* One key, histories up to the limit of chat and every shape of api_state,
\* with the streams that append to the stored history.
LimitHistories == {Hist(0), Hist(MAX_HISTORY * 2 - 2), Hist(MAX_HISTORY * 2 - 1),
                   Hist(MAX_HISTORY * 2)}

LimitStage ==
    /\ CallsBelow(MaxCalls)
    /\ \E history \in LimitHistories, api_state \in ApiStates,
          message \in SpecMessages :
           chat(TimeKeys[1], history, api_state, message, "ok")

LimitNext == LimitStage \/ BuildDispatch \/ Handler \/ Generator

LimitSpec == Init /\ [][LimitNext]_vars

\* ------------------------------------------- retry_last and undo_last
\* list.pop()
Pop(history) == SubSeq(history, 1, Len(history) - 1)

EditError(message) == [status |-> "error", message |-> message, history |-> <<>>]

EditSuccess(history) == [status |-> "success", message |-> "", history |-> history]

retry_lastAlwaysPop(history) ==
    IF Len(history) < 2 THEN EditError("No previous message to retry")
    ELSE EditSuccess(Pop(history))

\* lines 3476-3502
retry_last(history) ==
    IF Len(history) < 2 THEN EditError("No previous message to retry")
    ELSE IF Len(history) % 2 = 0 THEN EditSuccess(Pop(history))
    ELSE EditSuccess(history)

undo_lastPopOnce(history) ==
    IF history = <<>> THEN EditError("No messages to undo")
    ELSE EditSuccess(Pop(history))

\* lines 3504-3533
undo_last(history) ==
    IF history = <<>> THEN EditError("No messages to undo")
    ELSE IF Len(history) % 2 = 0 THEN EditSuccess(Pop(Pop(history)))
    ELSE EditSuccess(Pop(history))

\* A client calls the endpoint with the history it holds and, on success,
\* holds the history of the response from then on.
Edit(op, response) ==
    /\ lastEdit' = [op |-> op, request |-> lastEdit.client, response |-> response,
                    client |-> IF response.status = "success" THEN response.history
                               ELSE lastEdit.client]
    /\ UNCHANGED <<CHAT_REQUESTS, entries, lists, apis, timers, streams, loop,
                   nChat, lastChat, genUsed, secondOf>>

RetryLast == Edit("retry_last", retry_last(lastEdit.client))

UndoLast == Edit("undo_last", undo_last(lastEdit.client))

\* the histories a client may hold: up to MaxTurns turns, texts and images
EditTurns == {Text(<<"q">>), Image(<<"q">>, "b64")}

EditHistories == UNION {[1..n -> EditTurns] : n \in 0..MaxTurns}

EditInit == TableInit /\ lastEdit \in {NoEdit(history) : history \in EditHistories}

EditNext == RetryLast \/ UndoLast

EditSpec == EditInit /\ [][EditNext]_vars

\* ------------------------------------------------------------- properties
EventTypes(s) == [i \in DOMAIN streams[s].events |-> streams[s].events[i].type]

Count(s, type) ==
    Cardinality({i \in DOMAIN streams[s].events : streams[s].events[i].type = type})

\* chat_stream found the entry and returned the streaming response
Opened(s) == streams[s].data # 0

\* entry id is the one stored under its key
InTable(id) == id \in DOMAIN entries /\ CHAT_REQUESTS[entries[id].key] = id

Dispatched(id) == \E s \in DOMAIN streams : streams[s].data = id

\* C1: after one chat call on a key, at most one of the chat_stream calls on
\* that key obtains the stored payload and opens a stream; the others get the
\* 'invalid or expired request' response.
C1_AtMostOnceConsumption ==
    \A s1, s2 \in DOMAIN streams :
        (Opened(s1) /\ Opened(s2) /\ streams[s1].data = streams[s2].data) => s1 = s2

\* C2: a stream whose generate_response has run to its end has emitted exactly
\* one terminal event, done or error.
C2_ExactlyOneTerminalEvent ==
    \A s \in DOMAIN streams :
        (Opened(s) /\ streams[s].pc = "end") => Count(s, "done") + Count(s, "error") = 1

\* C3: a timer that fires after a chat_stream call has read its entry does
\* nothing: it removes no entry and raises no error.
C3_TimerNoOpAfterConsumption ==
    \A t \in DOMAIN timers :
        timers[t].consumed => (timers[t].removed = 0 /\ timers[t].pc # "raised")

RECURSIVE ChunkConcat(_)
ChunkConcat(events) ==
    IF events = <<>> THEN <<>>
    ELSE (IF Head(events).type = "chunk" THEN Head(events).content ELSE <<>>)
         \o ChunkConcat(Tail(events))

\* C5: in a stream that has a done event, the contents of the chunk events,
\* concatenated in the order of emission, are the content of the done event.
C5_ChunkReconstruction ==
    \A s \in DOMAIN streams :
        \A i \in DOMAIN streams[s].events :
            streams[s].events[i].type = "done"
            => streams[s].events[i].content = ChunkConcat(streams[s].events)

\* a stream of two or more chunks has ended with done
C5_Witness ==
    \E s \in DOMAIN streams : Count(s, "done") = 1 /\ Count(s, "chunk") >= 2

\* C6 as stated: a usable configuration with a history of MAX_HISTORY turns or
\* more gets the 'limit reached' error and nothing is stored.
C6_LimitAtMaxHistory ==
    [][(nChat' = nChat + 1 /\ lastChat'.usable /\ lastChat'.hlen >= MAX_HISTORY)
       => (lastChat'.status = "error" /\ lastChat'.message = <<"limit">>
           /\ UNCHANGED <<CHAT_REQUESTS, entries, lists, apis, timers>>)]_vars

\* C6 amended: a usable configuration with a history of 2 * MAX_HISTORY list
\* elements or more gets the 'limit reached' error, nothing is stored and no
\* timer is armed.
C6_LimitAtTwiceMaxHistory ==
    [][(nChat' = nChat + 1 /\ lastChat'.usable /\ lastChat'.hlen >= MAX_HISTORY * 2)
       => (lastChat'.status = "error" /\ lastChat'.message = <<"limit">>
           /\ UNCHANGED <<CHAT_REQUESTS, entries, lists, apis, timers>>)]_vars

\* chat has refused a usable configuration with exactly 2 * MAX_HISTORY turns
C6_Witness ==
    /\ lastChat.usable
    /\ lastChat.hlen = MAX_HISTORY * 2
    /\ lastChat.message = <<"limit">>

\* C7: a key holds at most one entry, and a key whose entry has been removed
\* gets no entry again.
C7_KeyNeverReused ==
    [][\A k \in Keys :
          (CHAT_REQUESTS[k] = 0 /\ \E id \in DOMAIN entries : entries[id].key = k)
          => CHAT_REQUESTS'[k] = 0]_vars

\* C8: no two timers are ever armed for the same key.
C8_OneTimerPerKey ==
    \A t1, t2 \in DOMAIN timers : timers[t1].key = timers[t2].key => t1 = t2

\* C9: a timer removes an entry only when EVICT_DELAY seconds have passed since
\* that entry was stored.
C9_EvictionWindow ==
    \A t \in DOMAIN timers :
        timers[t].removed # 0 => timers[t].removedAge >= EVICT_DELAY

\* C10: with one entry, its timer and one stream on it, whatever the order of
\* the two presence tests and the two deletes, neither the timer nor the
\* stream's cleanup raises an error.
C10_RemovalRaceHarmless ==
    (Len(entries) = 1 /\ Cardinality({s \in DOMAIN streams : Opened(s)}) = 1)
    => /\ timers[1].pc # "raised"
       /\ \A s \in DOMAIN streams : streams[s].raised # "KeyError in finally"

\* C11: a call of chat with a configuration that is not marked valid, or with
\* a history at the limit, returns an error response without a request id,
\* leaves CHAT_REQUESTS as it was and arms no timer.
C11_FailedStagingNoEffect ==
    [][(/\ nChat' = nChat + 1
        /\ \/ lastChat'.api_state.empty
           \/ ~lastChat'.api_state.has_is_valid
           \/ ~lastChat'.api_state.is_valid
           \/ lastChat'.hlen >= MAX_HISTORY * 2)
       => (/\ lastChat'.status = "error"
           /\ lastChat'.message \in {<<"restart">>, <<"limit">>}
           /\ lastChat'.request_id = NoId
           /\ UNCHANGED <<CHAT_REQUESTS, entries, lists, apis, timers>>)]_vars

\* chat has refused a configuration without the is_valid mark while an entry
\* was pending
C11_Witness ==
    /\ lastChat.status = "error"
    /\ ~lastChat.api_state.empty
    /\ ~lastChat.api_state.has_is_valid
    /\ \E k \in Keys : CHAT_REQUESTS[k] # 0

\* C12: a chat_stream call with an empty request id, or with a key that has
\* no entry in CHAT_REQUESTS, is answered with the error response in that one
\* step and changes nothing; such a call never opens a stream, emits no event
\* and makes no upstream call.
C12_UnknownKey ==
    /\ [][\A rid \in Keys \cup {NoId} :
            (/\ Len(streams') = Len(streams) + 1
             /\ streams'[Len(streams')].rid = rid
             /\ (rid = NoId \/ CHAT_REQUESTS[rid] = 0))
            => (/\ streams'[Len(streams')].pc = "rejected"
                /\ loop' = 0
                /\ UNCHANGED <<CHAT_REQUESTS, entries, lists, apis, timers>>)]_vars
    /\ [](\A s \in DOMAIN streams :
            streams[s].pc = "rejected"
            => (/\ ~Opened(s)
                /\ streams[s].events = <<>>
                /\ streams[s].calls = 0
                /\ streams[s].raised = "none"))

\* a call was rejected for a key whose entry had been removed before
C12_Witness ==
    \E s \in DOMAIN streams :
        /\ streams[s].pc = "rejected"
        /\ streams[s].rid \in Keys
        /\ \E id \in DOMAIN entries : entries[id].key = streams[s].rid

\* generate_response of call s has run to its end (or has left by an error)
Finished(s) == streams[s].pc = "end" /\ Opened(s)

Terminal(s) == Count(s, "done") + Count(s, "error") >= 1

\* C13: once a stream on key k has emitted done or error and its generator has
\* finished, CHAT_REQUESTS holds under k no entry that was stored before the
\* stream began.
C13_TerminalCleanup ==
    \A s \in DOMAIN streams :
        (Finished(s) /\ Terminal(s))
        => (\/ CHAT_REQUESTS[streams[s].rid] = 0
            \/ CHAT_REQUESTS[streams[s].rid] > streams[s].began)

\* a stream has ended with done and its own cleanup, not the timer, has removed
\* the entry
C13_Witness ==
    \E s \in DOMAIN streams :
        /\ Finished(s)
        /\ Count(s, "done") = 1
        /\ CHAT_REQUESTS[streams[s].rid] = 0
        /\ \A t \in DOMAIN timers : timers[t].removed = 0

\* C14: a stream whose upstream stream has ended normally emits no error
\* event, and when its generator has finished its last event is done.
C14_UpstreamEndedThenDone ==
    \A s \in DOMAIN streams :
        streams[s].upstream = "ended"
        => (/\ Count(s, "error") = 0
            /\ Finished(s) =>
                 (/\ streams[s].events # <<>>
                  /\ streams[s].events[Len(streams[s].events)].type = "done"))

\* C15: a stream whose upstream call has raised RateLimitError emits no done
\* event, and when its generator has finished it has emitted exactly one error
\* event, as its last event and with the rate-limit message of
\* handle_api_error, and no entry stored before the stream began is under its
\* key.
C15_RateLimitFailure ==
    \A s \in DOMAIN streams :
        streams[s].upstream = "RateLimitError"
        => (/\ Count(s, "done") = 0
            /\ Finished(s) =>
                 (/\ Count(s, "error") = 1
                  /\ streams[s].events[Len(streams[s].events)]
                        = Event("error", handle_api_error("RateLimitError"))
                  /\ \/ CHAT_REQUESTS[streams[s].rid] = 0
                     \/ CHAT_REQUESTS[streams[s].rid] > streams[s].began))

\* C16: a chat_stream call makes at most one completions.create call, and none
\* after its upstream call or stream has raised an error.
C16_NoRetry ==
    /\ [](\A s \in DOMAIN streams : streams[s].calls <= 1)
    /\ [][\A s \in DOMAIN streams :
            streams[s].upstream \in UpstreamErrors
            => streams'[s].calls = streams[s].calls]_vars

\* a stream whose upstream call failed has finished, having made that one call
C16_Witness ==
    \E s \in DOMAIN streams :
        /\ Finished(s)
        /\ streams[s].upstream \in UpstreamErrors
        /\ streams[s].calls = 1
        /\ Count(s, "error") = 1

\* the texts of the exceptions the handlers catch
ExceptionTexts ==
    {str(e) : e \in {"EnvironmentError", "KeyError", "RuntimeError", "AttributeError"}
                     \cup UpstreamErrors}

\* C17: neither the message of a response of chat nor the content of an error
\* event of a stream contains the text of an exception.
C17_NoRawExceptionText ==
    /\ \A i \in DOMAIN lastChat.message : lastChat.message[i] \notin ExceptionTexts
    /\ \A s \in DOMAIN streams :
         \A i \in DOMAIN streams[s].events :
            streams[s].events[i].type = "error"
            => \A j \in DOMAIN streams[s].events[i].content :
                  streams[s].events[i].content[j] \notin ExceptionTexts

\* C18: a call of chat with a usable configuration and a history under the
\* limit, whose timer thread can be started, stores one entry under the key it
\* returns and arms one timer for that key; and as long as the 300 s of that
\* entry have not passed and no chat_stream call was made with its key, the
\* entry is the one a dispatch with that key finds.
C18_SuccessfulStaging ==
    /\ [][(/\ nChat' = nChat + 1
            /\ lastChat'.usable
            /\ lastChat'.hlen < MAX_HISTORY * 2
            /\ lastChat'.start = "ok")
           => (/\ lastChat'.status = "success"
               /\ lastChat'.request_id \in Keys
               /\ Len(entries') = Len(entries) + 1
               /\ entries'[Len(entries')].key = lastChat'.request_id
               /\ CHAT_REQUESTS' =
                    [CHAT_REQUESTS EXCEPT ![lastChat'.request_id] = Len(entries')]
               /\ Len(timers') = Len(timers) + 1
               /\ SubSeq(timers', 1, Len(timers)) = timers
               /\ timers'[Len(timers')].key = lastChat'.request_id
               /\ timers'[Len(timers')].pc = "armed")]_vars
    /\ [](\A id \in DOMAIN entries :
            (/\ ~timers[id].expired
             /\ \A s \in DOMAIN streams : streams[s].rid # entries[id].key)
            => InTable(id))

IsChunk(e) == e.type = "chunk"

\* the chunk events of a stream, in the order of emission
Chunks(s) == SelectSeq(streams[s].events, IsChunk)

\* C19: in every stream a thinking event precedes the first chunk event; the
\* chunk events are, one for one and in the same order, the text fragments
\* received from upstream; and neither a chunk nor a thinking event follows a
\* done or error event.
C19_EventOrdering ==
    \A s \in DOMAIN streams :
        LET ev == streams[s].events IN
        /\ \A i \in DOMAIN ev :
              ev[i].type = "chunk" => \E j \in 1..(i - 1) : ev[j].type = "thinking"
        /\ Len(Chunks(s)) = streams[s].deltas
        /\ \A k \in DOMAIN Chunks(s) : Chunks(s)[k].content = Fragment(k)
        /\ \A i, j \in DOMAIN ev :
              (ev[i].type \in {"done", "error"} /\ j > i)
              => ev[j].type \notin {"chunk", "thinking"}

\* a stream has delivered a fragment and then ended with an error event
C19_Witness ==
    \E s \in DOMAIN streams :
        /\ Finished(s)
        /\ Count(s, "chunk") >= 1
        /\ EventTypes(s)[Len(streams[s].events)] = "error"

\* C20: no exception leaves chat: every call returns either a success response
\* with a request id or an error response with a message, also when a
\* statement of chat has raised.
C20_StagingNeverRaises ==
    nChat > 0
    => /\ lastChat.raised = "none"
       /\ \/ /\ lastChat.status = "success"
             /\ lastChat.request_id \in Keys
          \/ /\ lastChat.status = "error"
             /\ lastChat.message # <<>>
             /\ lastChat.request_id = NoId

\* the Timer thread of an accepted submission could not be started and chat
\* has returned the 'Server error' response
C20_Witness ==
    /\ lastChat.start = "RuntimeError"
    /\ lastChat.status = "error"
    /\ lastChat.message[1] = "Server error: "

\* C21: a chat_stream call that has passed or failed the presence test ends
\* either with the 'invalid or expired request' response or with an opened
\* stream, whatever the timer does between the test and the read of the entry.
C21_DispatchRaceNeverRaises ==
    \A s \in DOMAIN streams :
        streams[s].pc # "read"
        => (streams[s].pc = "rejected" \/ Opened(s))

\* what CHAT_REQUESTS holds under key k: nothing, or a chat_data dict with its
\* history list and its api_state dict
EntryView(k) ==
    LET id == CHAT_REQUESTS[k] IN
    IF id = 0 THEN [id |-> 0]
    ELSE [id |-> id, entry |-> entries[id],
          history |-> lists[entries[id].history],
          api_state |-> apis[entries[id].api_state]]

\* the step is a step of a call of chat, of a chat_stream call or of a timer
\* that has key k
ActsOn(k) ==
    \/ nChat' = nChat + 1 /\ lastChat'.request_id = k
    \/ \E s \in DOMAIN streams' :
         /\ streams'[s].rid = k
         /\ (s \notin DOMAIN streams \/ streams'[s] # streams[s])
    \/ \E t \in DOMAIN timers :
         timers'[t] # timers[t] /\ timers[t].key = k

\* C22: a step that inserts, modifies or removes what CHAT_REQUESTS holds under
\* a key is a step of chat, of a stream or of a timer of that same key.
C22_CrossKeyIndependence ==
    [][\A k \in Keys : EntryView(k)' # EntryView(k) => ActsOn(k)]_vars

\* a timer has evicted the entry of its key while another key has an entry
C22_Witness ==
    \E t \in DOMAIN timers, k \in Keys :
        /\ timers[t].removed # 0
        /\ k # timers[t].key
        /\ CHAT_REQUESTS[k] # 0

NewTurn(message) ==
    IF message.has_image THEN Image(Strip(message.text), message.preview)
    ELSE Text(Strip(message.text))

\* the prior turns as messages, user and assistant alternating, each once
PriorMessages(staged) ==
    [i \in 1..Len(staged) |->
        IF i % 2 = 1 THEN UserMsg(staged[i]) ELSE AssistantMsg(staged[i])]

\* C24: the messages of the completions.create call of a stream are the system
\* prompt, the turns of the staged history once each and in order, as user and
\* assistant messages in turn, and the incoming message once, as the last user
\* message.  (Not claimed here: a staged history whose last turn is already the
\* text of the incoming message, and entries another stream has been
\* dispatched on.)
C24_UpstreamMessageList ==
    \A s \in DOMAIN streams :
        LET staged == entries[streams[s].data].staged
            message == entries[streams[s].data].message IN
        (/\ streams[s].calls = 1
         /\ \A o \in DOMAIN streams : streams[o].data = streams[s].data => o = s
         /\ ~(staged # <<>> /\ staged[Len(staged)] = Text(Strip(message.text))))
        => streams[s].sent
             = <<Msg("system", "text", <<"system_prompt">>, "")>>
               \o PriorMessages(staged)
               \o <<UserMsg(NewTurn(message))>>

NoDuplicate(seq) == \A i, j \in DOMAIN seq : seq[i] = seq[j] => i = j

\* C25: the updated_memory of every 'done' event has at most 5 user questions
\* and no topic twice; a step of a stream adds at most one user question to a
\* conversation_memory, and only to one that held fewer than 5.
C25_MemoryCap ==
    /\ [](\A s \in DOMAIN streams :
            Count(s, "done") > 0 =>
                /\ Len(streams[s].updated_memory.user_questions) <= 5
                /\ NoDuplicate(streams[s].updated_memory.topics))
    /\ [][\A a \in DOMAIN apis :
            LET before == Len(apis[a].conversation_memory.user_questions)
                after == Len(apis'[a].conversation_memory.user_questions) IN
            /\ after <= before + 1
            /\ after = before + 1 => before < 5]_vars

\* C26: when the generator of the only stream of an entry has finished, the
\* history list is the staged history, then the incoming message as a user
\* turn, then one more turn: the full response after 'done', the error message
\* after an upstream failure.
C26_HistoryAfterTerminal ==
    \A s \in DOMAIN streams :
        LET staged == entries[streams[s].data].staged
            message == entries[streams[s].data].message
            history == lists[streams[s].history]
            n == Len(staged) IN
        (/\ Finished(s)
         /\ \A o \in DOMAIN streams : streams[o].data = streams[s].data => o = s)
        => /\ Len(history) = n + 2
           /\ SubSeq(history, 1, n) = staged
           /\ history[n + 1] = NewTurn(message)
           /\ Count(s, "done") = 1 => history[n + 2] = Text(streams[s].full)
           /\ streams[s].upstream \in UpstreamErrors
                => history[n + 2] = Text(handle_api_error(streams[s].upstream))

\* C27: a step of a stream leaves every entry of the table other than the one
\* the stream was dispatched on as it is: in the table, with its history and
\* its api_state, also an entry staged under the stream's key while the stream
\* was running.
C27_OnlyOwnEntry ==
    [][\A s \in DOMAIN streams :
          (streams'[s] # streams[s] /\ Opened(s)) =>
              \A id \in DOMAIN entries :
                  (id # streams[s].data /\ InTable(id)) =>
                      /\ CHAT_REQUESTS'[entries[id].key] = id
                      /\ entries'[id] = entries[id]
                      /\ lists'[entries[id].history] = lists[entries[id].history]
                      /\ apis'[entries[id].api_state] = apis[entries[id].api_state]]_vars

\* the configuration is marked valid (line 3051)
MarkedValid(api_state) == ~ApiStateInvalid(api_state)

\* C28 as stated: every entry in CHAT_REQUESTS has a configuration marked valid
\* and a history of fewer than 2*MAX_HISTORY turns, also while a stream
\* dispatched on it is running.
C28_TableInvariant ==
    \A id \in DOMAIN entries :
        InTable(id) =>
            /\ MarkedValid(apis[entries[id].api_state])
            /\ Len(lists[entries[id].history]) < 2 * MAX_HISTORY

\* C28, amended: every entry in CHAT_REQUESTS has a configuration marked valid
\* and was stored by chat with a history of fewer than 2*MAX_HISTORY turns, and
\* holds that history unchanged until a stream is dispatched on its key; the
\* streams then append to it in place.
C28_TableInvariantAsStaged ==
    \A id \in DOMAIN entries :
        InTable(id) =>
            /\ MarkedValid(apis[entries[id].api_state])
            /\ Len(entries[id].staged) < 2 * MAX_HISTORY
            /\ (\A s \in DOMAIN streams : ~Opened(s))
                 => lists[entries[id].history] = entries[id].staged

\* an entry in the table, with a stream running on it, whose history has
\* reached 2*MAX_HISTORY turns
C28_Witness ==
    \E s \in DOMAIN streams :
        /\ Opened(s) /\ ~Finished(s)
        /\ InTable(streams[s].data)
        /\ Len(entries[streams[s].data].staged) = 2 * MAX_HISTORY - 1
        /\ Len(lists[entries[streams[s].data].history]) >= 2 * MAX_HISTORY

\* undo_last applied n times, as long as it succeeds
RECURSIVE UndoRepeated(_, _)
UndoRepeated(history, n) ==
    IF n = 0 \/ undo_last(history).status # "success" THEN history
    ELSE UndoRepeated(undo_last(history).history, n - 1)

\* C29: undo_last returns an error for the empty history; for any other it
\* returns the input without its last two turns when the length is even and
\* without its last turn when it is odd, which has even length; repeated, it
\* reaches the empty history.
C29_UndoLast ==
    lastEdit.op = "undo_last" =>
        LET history == lastEdit.request
            response == lastEdit.response
            n == Len(history) IN
        /\ history = <<>> => response.status = "error"
        /\ history # <<>> =>
              /\ response.status = "success"
              /\ response.history = SubSeq(history, 1, IF n % 2 = 0 THEN n - 2 ELSE n - 1)
              /\ Len(response.history) % 2 = 0
              /\ UndoRepeated(history, n) = <<>>

\* undo_last has removed the last exchange of a history of even length
C29_Witness ==
    /\ lastEdit.op = "undo_last"
    /\ Len(lastEdit.request) = 4
    /\ lastEdit.response.status = "success"
    /\ Len(lastEdit.response.history) = 2

\* the first part of C30: the response of retry_last to a history
RetryLastResponse(history, response) ==
    LET n == Len(history) IN
    /\ n < 2 => response.status = "error"
    /\ n >= 2 =>
          /\ response.status = "success"
          /\ response.history = SubSeq(history, 1, IF n % 2 = 0 THEN n - 1 ELSE n)
          /\ Len(response.history) % 2 = 1

\* C30 as stated: retry_last returns an error for fewer than 2 turns, else the
\* input without its last turn when the length is even and the input when it
\* is odd, of odd length; retry_last applied to the history it returned returns
\* that history again.
C30_RetryLastIdempotent ==
    lastEdit.op = "retry_last" =>
        /\ RetryLastResponse(lastEdit.request, lastEdit.response)
        /\ lastEdit.response.status = "success"
             => retry_last(lastEdit.response.history) = lastEdit.response

\* C30, amended: as above, but retry_last applied to the history it returned
\* returns that history again only when that history has 3 turns or more; for
\* the one turn left of an input of 2 turns it returns the error.
C30_RetryLast ==
    lastEdit.op = "retry_last" =>
        /\ RetryLastResponse(lastEdit.request, lastEdit.response)
        /\ lastEdit.response.status = "success"
             => retry_last(lastEdit.response.history)
                  = IF Len(lastEdit.response.history) >= 3 THEN lastEdit.response
                    ELSE EditError("No previous message to retry")

\* retry_last has returned a history of odd length unchanged
C30_Witness ==
    /\ lastEdit.op = "retry_last"
    /\ Len(lastEdit.request) = 3
    /\ lastEdit.response.status = "success"
    /\ lastEdit.response.history = lastEdit.request

====
